---------------------------- MODULE Spec2Model ----------------------------
(***************************************************************************)
(* A model of the patent downloader (src/main.py): the sequential client   *)
(* workflow  load input -> authenticate -> for each publication number:    *)
(* case info -> file list -> download each file -> log row, with its       *)
(* bounded retry loops, its multi-shape file-list parser, the files on     *)
(* disk (which survive from one run to the next) and the run log.          *)
(*                                                                         *)
(* Python strings are sequences of one-character strings.  JSON values are *)
(* tagged records [t, v]: "null", "num", "str", "list" (v a sequence) and  *)
(* "dict" (v a function from key strings to JSON values).                  *)
(***************************************************************************)
EXTENDS Integers, Sequences, FiniteSets, TLC

\* ------------------------------------------------------------------ bounds
\* The most publication numbers in one input file.
MaxCases == 2
\* The most runs of the program against the same download directory, and the
\* most publication numbers of an input file when the program is run again.
MaxRuns == 2
MaxRerunCases == 1
\* The number of chunks in a complete file body.
FileChunks == 2
\* The most items of a file-list response in the parser's own specification.
MaxItems == 2

\* --------------------------------------------------------- program constants
RETRY == 3

\* ------------------------------------------------------------------ strings
Upper == <<"A","B","C","D","E","F","G","H","I","J","K","L","M",
           "N","O","P","Q","R","S","T","U","V","W","X","Y","Z">>
Lowers == <<"a","b","c","d","e","f","g","h","i","j","k","l","m",
            "n","o","p","q","r","s","t","u","v","w","x","y","z">>
Digits == {"0","1","2","3","4","5","6","7","8","9"}
Whitespace == {" ", "\t", "\n", "\r"}

IsUpper(c) == \E i \in 1..26 : Upper[i] = c
IsLower(c) == \E i \in 1..26 : Lowers[i] = c
IsAlnum(c) == IsUpper(c) \/ IsLower(c) \/ c \in Digits

\* str.lower(), one character
LowerChar(c) == IF IsUpper(c) THEN Lowers[CHOOSE i \in 1..26 : Upper[i] = c] ELSE c
\* str.lower()
Lower(s) == [i \in 1..Len(s) |-> LowerChar(s[i])]

\* s[i : i+n] (1-based start, Python slice semantics: cut at the end)
Slice(s, i, n) == [j \in 1..(IF i + n - 1 <= Len(s) THEN n
                             ELSE IF Len(s) - i + 1 > 0 THEN Len(s) - i + 1 ELSE 0)
                     |-> s[i + j - 1]]
\* s.startswith(p)
StartsWith(s, p) == Len(p) <= Len(s) /\ Slice(s, 1, Len(p)) = p
\* sub in s
Contains(s, sub) == \E i \in 1..(Len(s) + 1) : i + Len(sub) - 1 <= Len(s) /\ Slice(s, i, Len(sub)) = sub
\* str.strip()
Strip(s) ==
  LET keep == {i \in 1..Len(s) : s[i] \notin Whitespace}
  IN IF keep = {} THEN <<>>
     ELSE LET lo == CHOOSE i \in keep : \A j \in keep : i <= j
              hi == CHOOSE i \in keep : \A j \in keep : j <= i
          IN Slice(s, lo, hi - lo + 1)

\* ------------------------------------------------------------------ JSON
None == [t |-> "null", v |-> 0]
Num(n) == [t |-> "num", v |-> n]
Str(s) == [t |-> "str", v |-> s]
List(s) == [t |-> "list", v |-> s]
Dict(f) == [t |-> "dict", v |-> f]
EmptyDict == Dict([k \in {} |-> None])

IsDict(j) == j.t = "dict"
IsStr(j) == j.t = "str"
IsList(j) == j.t = "list"

\* bool(x)
Truthy(j) ==
  CASE j.t = "null" -> FALSE
    [] j.t = "num" -> j.v # 0
    [] j.t = "str" -> Len(j.v) > 0
    [] j.t = "list" -> Len(j.v) > 0
    [] j.t = "dict" -> DOMAIN j.v # {}

\* dict.get(key)
Get(j, key) == IF key \in DOMAIN j.v THEN j.v[key] ELSE None
\* a or b
Or(a, b) == IF Truthy(a) THEN a ELSE b

DigitOf == <<"1","2","3","4","5","6","7","8","9">>
\* str(x) of a string or of a one-digit number
PyStr(j) ==
  CASE j.t = "str" -> j.v
    [] j.t = "num" -> IF j.v = 0 THEN <<"0">> ELSE <<DigitOf[j.v]>>

\* for x in j: the elements of a list, the characters of a string, the keys of
\* a dict (in some order); a number is not iterable (TypeError).
Iterable(j) == j.t \in {"list", "str", "dict"}
SeqOfSet(S) == CHOOSE q \in [1..Cardinality(S) -> S] : \A x \in S : \E i \in DOMAIN q : q[i] = x
Iter(j) ==
  CASE j.t = "list" -> j.v
    [] j.t = "str" -> [i \in 1..Len(j.v) |-> Str(<<j.v[i]>>)]
    [] j.t = "dict" -> LET ks == SeqOfSet(DOMAIN j.v) IN [i \in 1..Len(ks) |-> Str(<<ks[i]>>)]

\* ------------------------------------------------------- parse_file_items
GETFILE == <<"/","g","e","t","f","i","l","e","/">>

\* re.search(r"/getfile/([A-Za-z0-9]+)", s): the start of the group of the
\* leftmost match, 0 when there is none
GetfileMatch(s) ==
  LET hits == {i \in 1..Len(s) : /\ Slice(s, i, 9) = GETFILE
                                 /\ i + 9 <= Len(s)
                                 /\ IsAlnum(s[i + 9])}
  IN IF hits = {} THEN 0 ELSE (CHOOSE i \in hits : \A j \in hits : i <= j) + 9

\* the longest run of alphanumerics of s that starts at i
AlnumRun(s, i) ==
  LET stop == {j \in i..Len(s) : ~IsAlnum(s[j])}
      end == IF stop = {} THEN Len(s) ELSE (CHOOSE j \in stop : \A k \in stop : j <= k) - 1
  IN Slice(s, i, end - i + 1)

HTTP == <<"h","t","t","p">>

\* if isinstance(fid, str) and fid.startswith("http"): take /getfile/<id>
ExtractId(fid) ==
  IF IsStr(fid) /\ StartsWith(fid.v, HTTP) /\ GetfileMatch(fid.v) # 0
  THEN Str(AlnumRun(fid.v, GetfileMatch(fid.v)))
  ELSE fid

\* the (name, reference) pair of one item, <<>> when either is missing
Pair(fname, fid) ==
  IF Truthy(fname) /\ Truthy(fid) THEN << <<PyStr(fname), PyStr(fid)>> >> ELSE <<>>

\* one item of a nested fileList
NestedItem(f) ==
  IF ~IsDict(f) THEN <<>>
  ELSE Pair(Or(Get(f, "showName"), Or(Get(f, "fileName"), Get(f, "name"))),
            ExtractId(Or(Get(f, "fileURL"), Or(Get(f, "fileId"), Get(f, "id")))))

\* one item of a flat list / data / files collection
FlatItem(x) ==
  IF ~IsDict(x) THEN <<>>
  ELSE Pair(Or(Get(x, "fileName"), Or(Get(x, "filename"), Or(Get(x, "name"), Get(x, "showName")))),
            ExtractId(Or(Get(x, "fileId"), Or(Get(x, "fileID"), Or(Get(x, "id"), Get(x, "fileURL"))))))

RECURSIVE NestedItems(_, _)
\* the pairs of the items s[from], s[from+1], ... of a nested fileList, in order
NestedItems(s, from) ==
  IF from > Len(s) THEN <<>> ELSE NestedItem(s[from]) \o NestedItems(s, from + 1)

RECURSIVE FlatItems(_, _)
\* the pairs of the candidates s[from], s[from+1], ..., in order
FlatItems(s, from) ==
  IF from > Len(s) THEN <<>> ELSE FlatItem(s[from]) \o FlatItems(s, from + 1)

\* entry.get("fileList", []) or []
FileListOf(entry) == Or(Get(entry, "fileList"), List(<<>>))

\* for f in entry.get("fileList", []) or []: ...
NestedEntry(entry) ==
  IF ~IsDict(entry) THEN <<>> ELSE NestedItems(Iter(FileListOf(entry)), 1)

RECURSIVE NestedEntries(_, _)
\* for entry in file_list_json.get("resultFileList", []) or []: ...
NestedEntries(s, from) ==
  IF from > Len(s) THEN <<>> ELSE NestedEntry(s[from]) \o NestedEntries(s, from + 1)

\* whether the iteration of one entry raises (its fileList is not iterable)
EntryRaises(entry) == IsDict(entry) /\ ~Iterable(FileListOf(entry))

\* file_list_json.get("data") or file_list_json.get("files") or []
Candidates(j) ==
  IF IsList(j) THEN j
  ELSE IF IsDict(j) THEN Or(Get(j, "data"), Or(Get(j, "files"), List(<<>>)))
  ELSE List(<<>>)

IsNested(j) == IsDict(j) /\ Truthy(Get(j, "resultFileList"))

\* The result of parse_file_items: [ok |-> TRUE, items |-> the pairs], or
\* [ok |-> FALSE, ...] when the function raises TypeError.
Raised(msg) == [ok |-> FALSE, items |-> <<>>, err |-> msg]
Returned(items) == [ok |-> TRUE, items |-> items, err |-> ""]

ParseNested(j) ==
  LET rfl == Get(j, "resultFileList")
  IN IF ~Iterable(rfl) THEN Raised("TypeError")
     ELSE IF \E i \in DOMAIN Iter(rfl) : EntryRaises(Iter(rfl)[i]) THEN Raised("TypeError")
     ELSE Returned(NestedEntries(Iter(rfl), 1))

ParseFlat(j) ==
  IF ~Iterable(Candidates(j)) THEN Raised("TypeError")
  ELSE Returned(FlatItems(Iter(Candidates(j)), 1))

parse_file_items(j) == IF IsNested(j) THEN ParseNested(j) ELSE ParseFlat(j)

\* --------------------------------------------------------------- get_token
QUOTE == "\""
TOKEN_Q == <<"t","o","k","e","n",QUOTE>>
ACCESS_TOKEN_Q == <<"a","c","c","e","s","s","_","t","o","k","e","n",QUOTE>>
TOKEN_EQ == <<"t","o","k","e","n","=">>

\* the first index >= i of s that holds no whitespace (Len(s) + 1 when none)
SkipWs(s, i) ==
  LET rest == {j \in i..Len(s) : s[j] \notin Whitespace}
  IN IF rest = {} THEN Len(s) + 1 ELSE CHOOSE j \in rest : \A k \in rest : j <= k

\* the longest run of characters outside `stop` that starts at i
RunUntil(s, i, stop) ==
  LET ends == {j \in i..Len(s) : s[j] \in stop}
      end == IF ends = {} THEN Len(s) ELSE (CHOOSE j \in ends : \A k \in ends : j <= k) - 1
  IN Slice(s, i, end - i + 1)

\* "(?:access_)?token"\s*:\s*"([^"]+)" matched at i: the start of the group, else 0
KeyValueAt(s, i) ==
  LET afterKey == IF Slice(s, i + 1, 6) = TOKEN_Q THEN i + 7
                  ELSE IF Slice(s, i + 1, 13) = ACCESS_TOKEN_Q THEN i + 14 ELSE 0
      colon == SkipWs(s, afterKey)
      open == SkipWs(s, colon + 1)
      group == RunUntil(s, open + 1, {QUOTE})
  IN IF /\ i <= Len(s) /\ s[i] = QUOTE /\ afterKey # 0
        /\ colon <= Len(s) /\ s[colon] = ":"
        /\ open <= Len(s) /\ s[open] = QUOTE
        /\ Len(group) >= 1
        /\ open + Len(group) + 1 <= Len(s)
     THEN open + 1 ELSE 0

\* re.search(r'"(?:access_)?token"\s*:\s*"([^"]+)"', text): group 1, <<>> when no match
SearchKeyValue(text) ==
  LET hits == {i \in 1..Len(text) : KeyValueAt(text, i) # 0}
  IN IF hits = {} THEN <<>>
     ELSE RunUntil(text, KeyValueAt(text, CHOOSE i \in hits : \A j \in hits : i <= j), {QUOTE})

\* re.search(r"token=([^&\s]+)", text): group 1, <<>> when no match
SearchQuery(text) ==
  LET hits == {i \in 1..Len(text) : /\ Slice(text, i, 6) = TOKEN_EQ
                                    /\ Len(RunUntil(text, i + 6, Whitespace \cup {"&"})) >= 1}
  IN IF hits = {} THEN <<>>
     ELSE RunUntil(text, (CHOOSE i \in hits : \A j \in hits : i <= j) + 6, Whitespace \cup {"&"})

\* An answer of the auth endpoint: [status, is_json, json, text].  The result
\* of get_token: [ok |-> TRUE, token] or [ok |-> FALSE, err] when it raises.
TokenOk(tok) == [ok |-> TRUE, token |-> tok, err |-> ""]
TokenErr(e) == [ok |-> FALSE, token |-> None, err |-> e]

\* the except requests.exceptions.JSONDecodeError branch
TokenFromText(text) ==
  IF SearchKeyValue(text) # <<>> THEN TokenOk(Str(SearchKeyValue(text)))
  ELSE IF SearchQuery(text) # <<>> THEN TokenOk(Str(SearchQuery(text)))
  ELSE IF Strip(text) # <<>> THEN TokenOk(Str(Strip(text)))
  ELSE TokenErr("RuntimeError")

\* TokenFromJson without the `if not token: raise`
TokenFromJsonUnchecked(data) ==
  TokenOk(IF IsDict(data)
          THEN Or(Get(data, "token"), Or(Get(data, "access_token"), Get(data, "data")))
          ELSE IF IsStr(data) /\ Strip(data.v) # <<>> THEN Str(Strip(data.v))
          ELSE None)

\* the branch after r.json() succeeded
TokenFromJson(data) ==
  LET token == IF IsDict(data)
               THEN Or(Get(data, "token"), Or(Get(data, "access_token"), Get(data, "data")))
               ELSE IF IsStr(data) /\ Strip(data.v) # <<>> THEN Str(Strip(data.v))
               ELSE None
  IN IF ~Truthy(token) THEN TokenErr("RuntimeError") ELSE TokenOk(token)

\* r.raise_for_status(), then the parse of the body
get_token(r) ==
  IF r.status >= 400 THEN TokenErr("HTTPError")
  ELSE IF r.is_json THEN TokenFromJson(r.json)
  ELSE TokenFromText(r.text)

\* ------------------------------------------------------- normalize_case_id
\* re.fullmatch(r"TW(\d+)[A-Z]\d*", s, flags=re.IGNORECASE): group 1, else s
normalize_case_id(pubno) ==
  LET s == Strip(pubno)
      digits == RunUntil(s, 3, {c \in {s[i] : i \in 1..Len(s)} : c \notin Digits})
      kind == 3 + Len(digits)
  IN IF /\ Lower(Slice(s, 1, 2)) = <<"t","w">>
        /\ Len(digits) >= 1
        /\ kind <= Len(s)
        /\ IsUpper(s[kind]) \/ IsLower(s[kind])
        /\ \A i \in (kind + 1)..Len(s) : s[i] \in Digits
     THEN digits ELSE s

\* ----------------------------------------------------------- safe_filename
Unsafe == {"<", ">", ":", QUOTE, "/", "\\", "|", "?", "*", "\n", "\r", "\t"}
\* re.sub(r'[<>:"/\\|?*\n\r\t]', "_", name).strip()
safe_filename(name) == Strip([i \in 1..Len(name) |-> IF name[i] \in Unsafe THEN "_" ELSE name[i]])

\* ---------------------------------------------------------- keyword_filter
\* FILENAME_INCLUDE_KEYWORDS is None (every file passes) or a list of keywords
NoKeywords == [set |-> FALSE, list |-> <<>>]
Keywords(list) == [set |-> TRUE, list |-> list]

\* keyword_filter without the two lower() calls
keyword_filter_case_sensitive(kw, filename) ==
  IF ~kw.set THEN TRUE
  ELSE \E i \in 1..Len(kw.list) : Contains(filename, kw.list[i])

keyword_filter(kw, filename) ==
  IF ~kw.set THEN TRUE
  ELSE \E i \in 1..Len(kw.list) : Contains(Lower(filename), Lower(kw.list[i]))

\* ------------------------------------------------------------- environment
\* The input column: row i holds publication number PubnoAt[i] or is empty
\* (NaN), so the numbers of one sheet are distinct and a row is known by its number.
P1 == <<"T","W","1","A">>
P2 == <<"7">>
P3 == <<" ","t","w","3","0","b","2">>
P4 == <<"T","W","A">>
PubnoAt == <<P1, P2, P3, P4>>
NaN == [na |-> TRUE, v |-> <<>>]
Cell(s) == [na |-> FALSE, v |-> s]
CellLists(most) ==
  UNION {{c \in [1..n -> {NaN} \cup {Cell(PubnoAt[i]) : i \in 1..n}] :
            \A i \in 1..n : c[i] \in {NaN, Cell(PubnoAt[i])}} : n \in 0..most}

XLSX == <<".","x","l","s","x">>
XLS == <<".","X","L","S">>
CSV == <<".","c","s","v">>
TXT == <<".","t","x","t">>
\* The input file as the run finds it, of at most `most` rows.
InputFiles(most) ==
  {[exists |-> FALSE, suffix |-> XLSX, has_column |-> TRUE, cells |-> <<>>],
   [exists |-> TRUE, suffix |-> TXT, has_column |-> TRUE, cells |-> <<>>],
   [exists |-> TRUE, suffix |-> CSV, has_column |-> FALSE, cells |-> <<>>]}
  \cup {[exists |-> TRUE, suffix |-> sfx, has_column |-> TRUE, cells |-> c] :
          sfx \in {XLSX, XLS, CSV}, c \in CellLists(most)}

\* Answers of the auth endpoint.
TK == <<"t","k">>
AuthAnswer(status, is_json, json, text) ==
  [status |-> status, is_json |-> is_json, json |-> json, text |-> text]
AuthResponses ==
  {AuthAnswer(401, FALSE, None, <<>>),
   AuthAnswer(200, TRUE, Dict([k \in {"token"} |-> Str(TK)]), <<>>),
   AuthAnswer(200, TRUE, Dict([k \in {"token", "data"} |-> IF k = "token" THEN Str(<<>>) ELSE Str(TK)]), <<>>),
   AuthAnswer(200, TRUE, Str(<<" ","t","k"," ">>), <<>>),
   AuthAnswer(200, TRUE, EmptyDict, <<>>),
   AuthAnswer(200, TRUE, List(<<>>), <<>>),
   AuthAnswer(200, FALSE, None, <<"{",QUOTE,"a","c","c","e","s","s","_","t","o","k","e","n",QUOTE,":"," ",QUOTE,"t","k",QUOTE>>),
   AuthAnswer(200, FALSE, None, <<"o","k","&","t","o","k","e","n","=","t","k","&","x">>),
   AuthAnswer(200, FALSE, None, <<" ","t","k","\n">>),
   AuthAnswer(200, FALSE, None, <<" ","\n">>)}

\* Bodies of the case-info endpoint.
CaseInfos ==
  {Dict([k \in {"caseNo"} |-> Str(<<"9">>)]),
   Dict([k \in {"caseNo", "caseNO"} |-> IF k = "caseNo" THEN Num(0) ELSE Str(<<"9">>)]),
   EmptyDict,
   List(<<>>)}

\* File names and references of the file-list endpoint.
N1 == <<"R",".","P","D","F">>
N2 == <<"n",".","x","m","l">>
U1 == <<"h","t","t","p",":","/","/","t","/","g","e","t","f","i","l","e","/","a","1">>
Item2(k1, v1, k2, v2) == Dict([k \in {k1, k2} |-> IF k = k1 THEN v1 ELSE v2])
Item1(k1, v1) == Dict([k \in {k1} |-> v1])

\* Bodies of the file-list endpoint.
FileLists ==
  {Item1("resultFileList",
         List(<<Item1("fileList", List(<<Item2("showName", Str(N1), "fileURL", Str(U1)),
                                         Item2("showName", Str(N2), "fileId", Str(<<"b">>))>>))>>)),
   List(<<Item2("fileName", Str(N1), "id", Num(7)), Item2("name", Str(N1), "fileId", Str(<<"b">>))>>),
   List(<<>>),
   Item1("data", List(<<Item1("fileName", Str(N1)), Item1("fileId", Str(<<"b">>))>>)),
   Item1("data", Num(5))}

\* The keyword allow-lists the program may be configured with.
KeywordConfigs == {NoKeywords, Keywords(<< <<"P","d","f">> >>)}

\* What one HTTP attempt of a JSON endpoint ends with (raise_for_status,
\* r.json()), and one attempt of a download.
JsonErrors == {"HTTPError", "JSONDecodeError"}

\* one failed attempt that wrote `written` chunks to the destination first
\* (-1: the destination was never opened)
DownloadFailure(err, written) == [ok |-> FALSE, err |-> err, written |-> written]
\* one complete transfer of a body of `written` chunks
DownloadSuccess(written) == [ok |-> TRUE, err |-> "", written |-> written]
DownloadOutcomes ==
  {DownloadFailure("HTTPError", -1)}
  \cup {DownloadFailure("ChunkedEncodingError", k) : k \in 0..(FileChunks - 1)}
  \cup {DownloadSuccess(0), DownloadSuccess(FileChunks)}

\* ------------------------------------------------------------------- state
VARIABLES
  pc,          \* where main() is
  run,         \* the number of this run against the same directory
  keywords,    \* FILENAME_INCLUDE_KEYWORDS
  disk,        \* SAVE_DIR: file name -> chunks it holds
  pubnos,      \* the publication numbers of the input column
  token,       \* the bearer token
  auth_reqs,   \* requests sent to the auth endpoint in this run
  log_rows,    \* the run log
  log_file,    \* the log file written, "" while none is
  fatal,       \* the exception that ended the run, "" while none did
  idx,         \* the index in pubnos of the case in hand
  case_id,     \* normalize_case_id(pubno)
  case_no,     \* the case number of the case in hand
  attempt,     \* the retry loop's attempt
  last_err,    \* the retry loop's last_err
  call,        \* the retry call in hand or last made: kind, requests sent, result
  ev,          \* what the case in hand has done: the endpoints asked, "write"
  file_list_json, \* the file list of the case in hand as get_file_list returned it
  file_items,  \* parse_file_items' pairs of the case in hand
  fi,          \* the index in file_items of the file in hand
  downloaded,  \* the case's count of downloaded files
  handled,     \* what became of file_items[1..fi-1]
  pj,          \* the parser's specification: the items given
  pout         \* the parser's specification: the result per shape

runVars == <<pubnos, token, auth_reqs, log_rows, log_file, fatal>>
caseVars == <<idx, case_id, case_no, attempt, last_err, call, ev, file_list_json, file_items,
              fi, downloaded, handled>>
mainVars == <<pc, run, keywords, disk, runVars, caseVars>>
parseVars == <<pj, pout>>
vars == <<mainVars, parseVars>>

NoCall == [kind |-> "none", sent |-> 0, result |-> "none"]
NewCall(kind) == [kind |-> kind, sent |-> 0, result |-> "running"]
NoEvents == {}
NoFiles == [n \in {} |-> 0]

\* the state of main() before its first statement
FreshRun ==
  /\ pubnos = <<>> /\ token = None /\ auth_reqs = 0
  /\ log_rows = <<>> /\ log_file = "" /\ fatal = ""
  /\ idx = 0 /\ case_id = <<>> /\ case_no = None
  /\ attempt = 0 /\ last_err = "" /\ call = NoCall /\ ev = NoEvents
  /\ file_list_json = None /\ file_items = <<>> /\ fi = 0 /\ downloaded = 0 /\ handled = <<>>

MainInit ==
  /\ pc = "start" /\ run = 1
  /\ keywords \in KeywordConfigs
  /\ disk = NoFiles
  /\ FreshRun

ParseIdle == pj = <<>> /\ pout = <<>>

Init == MainInit /\ ParseIdle

\* ------------------------------------------------------------------ log rows
NO_CASE_NO == "NO_CASE_NO"        \* the reason of a case without caseNo
NO_FILES == "NO_FILES"            \* the reason of a case without files
Reason(msg, err) == [msg |-> msg, last_err |-> err]
NoReason == Reason("", "")
FailRow(pubno, cid, cno, reason) ==
  [pubno |-> pubno, caseId |-> cid, caseNo |-> cno, status |-> "FAIL",
   reason |-> reason, downloaded_files |-> -1]
OkRow(pubno, cid, cno, n) ==
  [pubno |-> pubno, caseId |-> cid, caseNo |-> cno, status |-> "OK",
   reason |-> NoReason, downloaded_files |-> n]

\* EndCase with a failed case ending the loop (break for continue)
EndCaseBreak(row) ==
  /\ log_rows' = Append(log_rows, row)
  /\ idx' = idx + 1
  /\ pc' = IF row.status = "FAIL" THEN "writelog" ELSE "loop"

\* log_rows.append(row), then the loop turns to the next publication number
EndCase(row) ==
  /\ log_rows' = Append(log_rows, row)
  /\ idx' = idx + 1
  /\ pc' = "loop"

\* ExceptRow with the exception's message left out of the row
ExceptRowNoReason(reason) == FailRow(pubnos[idx], case_id, None, NoReason)

\* except Exception as e: the FAIL row of the case in hand
ExceptRow(reason) == FailRow(pubnos[idx], case_id, None, reason)

\* ------------------------------------------------------------ the retry loop
\* AttemptRange with one attempt too many
AttemptRangeOneMore == 1..(RETRY + 1)

\* for attempt in range(1, RETRY + 1)
AttemptRange == 1..RETRY

\* the call after one more request, which ended as `result`
Sent(c, result) == [c EXCEPT !.sent = @ + 1, !.result = result]

\* ------------------------------------------------------------------ actions
\* df = read_input_file(INPUT_FILE); the column check; pubnos = ...dropna()...
RECURSIVE DropNa(_)
DropNa(cells) ==
  IF cells = <<>> THEN <<>>
  ELSE (IF Head(cells).na THEN <<>> ELSE <<Head(cells).v>>) \o DropNa(Tail(cells))

read_input_file(f) ==
  IF ~f.exists THEN "FileNotFoundError"
  ELSE IF Lower(f.suffix) \in {XLSX, Lower(XLS), CSV} THEN ""
  ELSE "ValueError"

ReadInput(most) ==
  /\ pc = "start"
  /\ \E f \in InputFiles(most) :
       IF read_input_file(f) # ""
       THEN /\ pc' = "aborted" /\ fatal' = read_input_file(f) /\ pubnos' = pubnos
       ELSE IF ~f.has_column
       THEN /\ pc' = "aborted" /\ fatal' = "ValueError" /\ pubnos' = pubnos
       ELSE /\ pc' = "auth" /\ fatal' = fatal /\ pubnos' = DropNa(f.cells)
  /\ UNCHANGED <<run, keywords, disk, token, auth_reqs, log_rows, log_file, caseVars, parseVars>>

\* token = get_token(session); log_rows = []
GetToken ==
  /\ pc = "auth"
  /\ auth_reqs' = auth_reqs + 1
  /\ \E r \in AuthResponses :
       IF get_token(r).ok
       THEN /\ token' = get_token(r).token /\ pc' = "loop" /\ idx' = 1 /\ fatal' = fatal
       ELSE /\ token' = token /\ pc' = "aborted" /\ idx' = idx /\ fatal' = get_token(r).err
  /\ UNCHANGED <<run, keywords, disk, pubnos, log_rows, log_file, parseVars, case_id, case_no,
                 attempt, last_err, call, ev, file_list_json, file_items, fi, downloaded, handled>>

\* for pubno in pubnos: case_id = normalize_case_id(pubno); get_case_info(...)
StartCase ==
  /\ pc = "loop" /\ idx <= Len(pubnos)
  /\ case_id' = normalize_case_id(pubnos[idx])
  /\ case_no' = None /\ file_list_json' = None /\ file_items' = <<>>
  /\ fi' = 0 /\ downloaded' = 0 /\ handled' = <<>>
  /\ ev' = NoEvents
  /\ call' = NewCall("caseinfo") /\ attempt' = 1 /\ last_err' = ""
  /\ pc' = "caseinfo"
  /\ UNCHANGED <<run, keywords, disk, runVars, idx, parseVars>>

\* case_no = case_info.get("caseNo") or case_info.get("caseNO")
CaseNoOf(case_info) == Or(Get(case_info, "caseNo"), Get(case_info, "caseNO"))

\* AfterCaseInfo without the `if not case_no` check
AfterCaseInfoNoCheck(case_info) ==
  IF ~IsDict(case_info)
  THEN /\ EndCase(ExceptRow(Reason("AttributeError", "")))
       /\ UNCHANGED <<case_no, attempt, last_err>>
       /\ call' = Sent(call, "returned")
  ELSE /\ case_no' = CaseNoOf(case_info)
       /\ call' = NewCall("filelist") /\ attempt' = 1 /\ last_err' = ""
       /\ pc' = "filelist"
       /\ UNCHANGED <<log_rows, idx>>

\* main() after get_case_info returned: lines 266-272
AfterCaseInfo(case_info) ==
  IF ~IsDict(case_info)
  THEN /\ EndCase(ExceptRow(Reason("AttributeError", "")))
       /\ UNCHANGED <<case_no, attempt, last_err>>
       /\ call' = Sent(call, "returned")
  ELSE IF ~Truthy(CaseNoOf(case_info))
  THEN /\ EndCase(FailRow(pubnos[idx], case_id, None, Reason(NO_CASE_NO, "")))
       /\ UNCHANGED <<case_no, attempt, last_err>>
       /\ call' = Sent(call, "returned")
  ELSE /\ case_no' = CaseNoOf(case_info)
       /\ call' = NewCall("filelist") /\ attempt' = 1 /\ last_err' = ""
       /\ pc' = "filelist"
       /\ UNCHANGED <<log_rows, idx>>

\* one turn of request_json_with_retry's loop, and what follows its return
\* or its raise in main()
CaseInfoAttempt ==
  /\ pc = "caseinfo" /\ attempt \in AttemptRange
  /\ ev' = ev \cup {"caseinfo"}
  /\ \/ \E body \in CaseInfos : AfterCaseInfo(body)
     \/ \E e \in JsonErrors :
          /\ last_err' = e
          /\ attempt' = attempt + 1
          /\ IF attempt + 1 \in AttemptRange
             THEN /\ call' = Sent(call, "running")
                  /\ UNCHANGED <<pc, log_rows, idx>>
             ELSE /\ call' = Sent(call, "raised")
                  /\ EndCase(ExceptRow(Reason("RequestFailed", e)))
          /\ UNCHANGED case_no
  /\ UNCHANGED <<run, keywords, disk, pubnos, token, auth_reqs, log_file, fatal,
                 case_id, file_list_json, file_items, fi, downloaded, handled, parseVars>>

\* AfterFileList without the `if not file_items` check
AfterFileListNoEmptyCheck(body) ==
  LET parsed == parse_file_items(body)
  IN /\ call' = Sent(call, "returned")
     /\ file_list_json' = body
     /\ IF ~parsed.ok
        THEN /\ EndCase(ExceptRow(Reason(parsed.err, "")))
             /\ UNCHANGED <<file_items, fi, downloaded>>
        ELSE /\ file_items' = parsed.items /\ fi' = 1 /\ downloaded' = 0
             /\ pc' = "files"
             /\ UNCHANGED <<log_rows, idx>>

\* main() after get_file_list returned: lines 273-279
AfterFileList(body) ==
  LET parsed == parse_file_items(body)
  IN /\ call' = Sent(call, "returned")
     /\ file_list_json' = body
     /\ IF ~parsed.ok
        THEN /\ EndCase(ExceptRow(Reason(parsed.err, "")))
             /\ UNCHANGED <<file_items, fi, downloaded>>
        ELSE IF parsed.items = <<>>
        THEN /\ EndCase(FailRow(pubnos[idx], case_id, case_no, Reason(NO_FILES, "")))
             /\ UNCHANGED <<file_items, fi, downloaded>>
        ELSE /\ file_items' = parsed.items /\ fi' = 1 /\ downloaded' = 0
             /\ pc' = "files"
             /\ UNCHANGED <<log_rows, idx>>

\* one turn of get_file_list's loop, and what follows in main()
FileListAttempt ==
  /\ pc = "filelist" /\ attempt \in AttemptRange
  /\ ev' = ev \cup {"filelist"}
  /\ \/ /\ \E body \in FileLists : AfterFileList(body)
        /\ UNCHANGED <<attempt, last_err>>
     \/ \E e \in JsonErrors :
          /\ last_err' = e
          /\ attempt' = attempt + 1
          /\ IF attempt + 1 \in AttemptRange
             THEN /\ call' = Sent(call, "running")
                  /\ UNCHANGED <<pc, log_rows, idx>>
             ELSE /\ call' = Sent(call, "raised")
                  /\ EndCase(ExceptRow(Reason("FileListFailed", e)))
          /\ UNCHANGED <<file_list_json, file_items, fi, downloaded>>
  /\ UNCHANGED <<run, keywords, disk, pubnos, token, auth_reqs, log_file, fatal,
                 case_id, case_no, handled, parseVars>>

\* save_path = SAVE_DIR / safe_filename(f"{pubno}_{fname}")
SavePath(pubno, fname) == safe_filename(pubno \o <<"_">> \o fname)
\* Present with the check left out: every file is fetched again
PresentNever(d, path) == FALSE

\* save_path.exists() and save_path.stat().st_size > 0
Present(d, path) == path \in DOMAIN d /\ d[path] > 0
\* the directory after `chunks` chunks were written to a file opened "wb"
Written(d, path, chunks) == [n \in DOMAIN d \cup {path} |-> IF n = path THEN chunks ELSE d[n]]

TheName == file_items[fi][1]
ThePath == SavePath(pubnos[idx], TheName)

\* the file loop is over: the OK row, then the next case
CaseOk ==
  /\ pc = "files" /\ fi > Len(file_items)
  /\ EndCase(OkRow(pubnos[idx], case_id, case_no, downloaded))
  /\ UNCHANGED <<run, keywords, disk, pubnos, token, auth_reqs, log_file, fatal, case_id, case_no,
                 attempt, last_err, call, ev, file_list_json, file_items, fi, downloaded, handled,
                 parseVars>>

\* if not keyword_filter(fname): continue
FileFiltered ==
  /\ pc = "files" /\ fi <= Len(file_items)
  /\ ~keyword_filter(keywords, TheName)
  /\ fi' = fi + 1 /\ handled' = Append(handled, "filtered")
  /\ UNCHANGED <<pc, run, keywords, disk, runVars, idx, case_id, case_no,
                 attempt, last_err, call, ev, file_list_json, file_items, downloaded, parseVars>>

\* the destination is there and not empty: downloaded += 1; continue
FileSkipped ==
  /\ pc = "files" /\ fi <= Len(file_items)
  /\ keyword_filter(keywords, TheName)
  /\ Present(disk, ThePath)
  /\ downloaded' = downloaded + 1
  /\ fi' = fi + 1 /\ handled' = Append(handled, "skipped")
  /\ UNCHANGED <<pc, run, keywords, disk, runVars, idx, case_id, case_no,
                 attempt, last_err, call, ev, file_list_json, file_items, parseVars>>

\* download_file(session, token, fid, save_path) is called
FileDownload ==
  /\ pc = "files" /\ fi <= Len(file_items)
  /\ keyword_filter(keywords, TheName)
  /\ ~Present(disk, ThePath)
  /\ call' = NewCall("download") /\ attempt' = 1 /\ last_err' = ""
  /\ pc' = "download"
  /\ UNCHANGED <<run, keywords, disk, runVars, idx, case_id, case_no,
                 ev, file_list_json, file_items, fi, downloaded, handled, parseVars>>

\* one turn of download_file's loop, and what follows in main()
DownloadAttempt ==
  /\ pc = "download" /\ attempt \in AttemptRange
  /\ \E o \in DownloadOutcomes :
       /\ ev' = ev \cup {"download"} \cup (IF o.written >= 0 THEN {"write"} ELSE {})
       /\ disk' = IF o.written >= 0 THEN Written(disk, ThePath, o.written) ELSE disk
       /\ IF o.ok
          THEN /\ call' = Sent(call, "returned")
               /\ downloaded' = downloaded + 1
               /\ fi' = fi + 1 /\ handled' = Append(handled, "downloaded")
               /\ pc' = "files"
               /\ UNCHANGED <<attempt, last_err, log_rows, idx>>
          ELSE /\ last_err' = o.err
               /\ attempt' = attempt + 1
               /\ UNCHANGED <<downloaded, fi, handled>>
               /\ IF attempt + 1 \in AttemptRange
                  THEN /\ call' = Sent(call, "running")
                       /\ UNCHANGED <<pc, log_rows, idx>>
                  ELSE /\ call' = Sent(call, "raised")
                       /\ EndCase(ExceptRow(Reason("DownloadFailed", o.err)))
  /\ UNCHANGED <<run, keywords, pubnos, token, auth_reqs, log_file, fatal,
                 case_id, case_no, file_list_json, file_items, parseVars>>

\* the loop over pubnos is over
EndLoop ==
  /\ pc = "loop" /\ idx > Len(pubnos)
  /\ pc' = "writelog"
  /\ UNCHANGED <<run, keywords, disk, runVars, caseVars, parseVars>>

\* log_df.to_csv(log_path); on PermissionError, to_csv(alt)
WriteLog ==
  /\ pc = "writelog"
  /\ \/ /\ log_file' = "download_log.csv" /\ pc' = "done" /\ fatal' = fatal
     \/ /\ log_file' = "download_log_TIMESTAMP.csv" /\ pc' = "done" /\ fatal' = fatal
     \/ /\ log_file' = log_file /\ pc' = "crashed" /\ fatal' \in {"PermissionError", "OSError"}
  /\ UNCHANGED <<run, keywords, disk, pubnos, token, auth_reqs, log_rows, caseVars, parseVars>>

\* the program is started again; the download directory is as the last run left it
Rerun ==
  /\ pc \in {"done", "aborted", "crashed"} /\ run < MaxRuns
  /\ pc' = "start" /\ run' = run + 1
  /\ pubnos' = <<>> /\ token' = None /\ auth_reqs' = 0
  /\ log_rows' = <<>> /\ log_file' = "" /\ fatal' = ""
  /\ idx' = 0 /\ case_id' = <<>> /\ case_no' = None
  /\ attempt' = 0 /\ last_err' = "" /\ call' = NoCall /\ ev' = NoEvents
  /\ file_list_json' = None /\ file_items' = <<>> /\ fi' = 0 /\ downloaded' = 0 /\ handled' = <<>>
  /\ UNCHANGED <<keywords, disk, parseVars>>

\* one run of the program, from an empty download directory
Next ==
  \/ ReadInput(MaxCases) \/ GetToken \/ StartCase \/ CaseInfoAttempt \/ FileListAttempt
  \/ CaseOk \/ FileFiltered \/ FileSkipped \/ FileDownload \/ DownloadAttempt
  \/ EndLoop \/ WriteLog

Spec == Init /\ [][Next]_vars

\* the program run, and run again, against the same download directory
NextRerun ==
  \/ ReadInput(MaxRerunCases) \/ GetToken \/ StartCase \/ CaseInfoAttempt \/ FileListAttempt
  \/ CaseOk \/ FileFiltered \/ FileSkipped \/ FileDownload \/ DownloadAttempt
  \/ EndLoop \/ WriteLog \/ Rerun

SpecRerun == Init /\ [][NextRerun]_vars

\* ------------------------------------------- the parser's own specification
\* parse_file_items applied to the same items delivered in each shape.
Absent == [t |-> "absent", v |-> 0]
\* the file item that holds the keys given a value
FileItem(showName, fileName, name, fileURL, fileId, id) ==
  LET c == [k \in {"showName", "fileName", "name", "fileURL", "fileId", "id"} |->
              CASE k = "showName" -> showName [] k = "fileName" -> fileName [] k = "name" -> name
                [] k = "fileURL" -> fileURL [] k = "fileId" -> fileId [] k = "id" -> id]
  IN Dict([k \in {k \in DOMAIN c : c[k] # Absent} |-> c[k]])

ParseItems ==
  {FileItem(a, b, c, d, e, f) :
     a \in {Absent, Str(<<"S">>), Str(<<>>)}, b \in {Absent, Str(<<"F">>)}, c \in {Absent, Str(N2)},
     d \in {Absent, Str(U1)}, e \in {Absent, Str(<<"i">>)}, f \in {Absent, Num(7)}}
  \cup {Str(<<"x">>)}

Shapes == {"nested", "list", "data", "files"}
\* the items as the file-list endpoint delivers them in one shape
Wrap(shape, items) ==
  CASE shape = "nested" -> Item1("resultFileList", List(<<Item1("fileList", List(items))>>))
    [] shape = "list" -> List(items)
    [] shape = "data" -> Item1("data", List(items))
    [] shape = "files" -> Item1("files", List(items))

NotParsed == [ok |-> FALSE, items |-> <<>>, err |-> "not parsed"]

InitParse ==
  /\ MainInit /\ ~keywords.set
  /\ pj \in UNION {[1..n -> ParseItems] : n \in 0..MaxItems}
  /\ pout = [sh \in Shapes |-> NotParsed]

ParseShape ==
  /\ \E sh \in Shapes :
       /\ pout[sh] = NotParsed
       /\ pout' = [pout EXCEPT ![sh] = parse_file_items(Wrap(sh, pj))]
  /\ UNCHANGED <<pj, mainVars>>

NextParse == ParseShape

SpecParse == InitParse /\ [][NextParse]_vars

\* ------------------------------------------------------------ the claims
CasePcs == {"caseinfo", "filelist", "files", "download"}
AfterLoop == {"writelog", "done", "crashed"}
\* a case has ended and the state of its processing is still in hand
CaseEnded == pc \in {"loop"} \cup AfterLoop /\ Len(log_rows) >= 1
LastRow == log_rows[Len(log_rows)]
\* the number of k in 1..Len(q) with P(q[k]), for the two uses below
CountHandled(q) == Cardinality({k \in 1..Len(q) : q[k] \in {"skipped", "downloaded"}})

\* C1: when the case loop is over the log holds exactly one row per input
\* publication number, row i for input i; while the loop runs the cases
\* before the one in hand have one row each, in input order, whatever each
\* case ended with, and the loop ends only after the last input.
C1_OneRowPerInput ==
  /\ pc \in CasePcs => idx \in 1..Len(pubnos) /\ Len(log_rows) = idx - 1
  /\ pc = "loop" => idx \in 1..(Len(pubnos) + 1) /\ Len(log_rows) = idx - 1
  /\ pc \in AfterLoop => Len(log_rows) = Len(pubnos)
  /\ Len(log_rows) <= Len(pubnos)
  /\ \A i \in 1..Len(log_rows) :
       /\ log_rows[i].pubno = pubnos[i]
       /\ log_rows[i].status \in {"OK", "FAIL"}

C1_Witness ==
  /\ pc = "done" /\ Len(pubnos) = 2 /\ Len(log_rows) = 2
  /\ log_rows[1].status = "FAIL" /\ log_rows[1].reason.msg = "DownloadFailed"
  /\ log_rows[2].status = "OK"

\* C2: a case goes PENDING -> RESOLVING -> (FAIL | LISTING -> (FAIL |
\* DOWNLOADING -> OK)): the file list is asked only with a non-empty case
\* number in hand, a download only with a non-empty file list, the OK row is
\* written only when every listed file was filtered out, skipped as present or
\* downloaded without error, and a retry call that raises ends the case with a
\* FAIL row that carries the error.
C2_StateInv ==
  /\ (pc = "filelist" \/ "filelist" \in ev) => Truthy(case_no) /\ "caseinfo" \in ev
  /\ (pc \in {"files", "download"} \/ "download" \in ev) =>
       /\ "filelist" \in ev /\ file_items # <<>>
       /\ parse_file_items(file_list_json).ok
       /\ file_items = parse_file_items(file_list_json).items
  /\ (CaseEnded /\ LastRow.status = "OK") =>
       /\ file_items # <<>> /\ Len(handled) = Len(file_items) /\ fi = Len(file_items) + 1
       /\ call.result # "raised"
       /\ \A k \in 1..Len(handled) : handled[k] \in {"filtered", "skipped", "downloaded"}
  /\ (CaseEnded /\ call.result = "raised") =>
       /\ LastRow.status = "FAIL"
       /\ LastRow.reason.msg \in {"RequestFailed", "FileListFailed", "DownloadFailed"}
       /\ LastRow.reason.last_err = last_err /\ last_err # ""

C2_Step ==
  /\ (pc = "caseinfo" /\ pc' # "caseinfo") => pc' \in {"filelist", "loop"}
  /\ (pc = "filelist" /\ pc' # "filelist") => pc' \in {"files", "loop"}
  /\ (pc = "files" /\ pc' # "files") => pc' \in {"download", "loop"}
  /\ (pc = "download" /\ pc' # "download") => pc' \in {"files", "loop"}
  /\ (pc \in CasePcs /\ pc' = "loop") =>
       /\ Len(log_rows') = Len(log_rows) + 1
       /\ log_rows'[Len(log_rows')].status = "OK" => pc = "files"
       /\ log_rows'[Len(log_rows')].status = "FAIL" => log_rows'[Len(log_rows')].reason.msg # ""
  /\ (pc \in CasePcs /\ pc' \in CasePcs) => log_rows' = log_rows

C2_CaseStateMachine == []C2_StateInv /\ [][C2_Step]_vars

C2_Witness ==
  /\ CaseEnded /\ LastRow.status = "OK" /\ LastRow.downloaded_files = 2
  /\ handled = <<"downloaded", "skipped">>

\* C3: in the file loop, a destination that exists and is not empty is not
\* downloaded again: the step sends no request (no retry call is started),
\* leaves the directory as it is and counts the file; every OK row counts
\* the files skipped with the files downloaded.
C3_Step ==
  (/\ pc = "files" /\ fi <= Len(file_items)
   /\ keyword_filter(keywords, file_items[fi][1])
   /\ SavePath(pubnos[idx], file_items[fi][1]) \in DOMAIN disk
   /\ disk[SavePath(pubnos[idx], file_items[fi][1])] > 0)
  => /\ disk' = disk /\ call' = call /\ ev' = ev
     /\ pc' = "files" /\ fi' = fi + 1 /\ downloaded' = downloaded + 1
     /\ log_rows' = log_rows

C3_Counted ==
  (CaseEnded /\ LastRow.status = "OK") => LastRow.downloaded_files = CountHandled(handled)

C3_SkipPresent == []C3_Counted /\ [][C3_Step]_vars

C3_Witness ==
  /\ run = 2 /\ CaseEnded /\ LastRow.status = "OK"
  /\ handled = <<"skipped", "skipped">> /\ LastRow.downloaded_files = 2
  /\ "download" \notin ev /\ "write" \notin ev

\* C4: a case whose case-info lookup fails on every attempt ends with one FAIL
\* row with a reason, with no file-list request, no download request and no
\* file written; a run over that one publication number ends with that one row.
C4_CaseInfoFailure ==
  (CaseEnded /\ call.kind = "caseinfo" /\ call.result = "raised") =>
     /\ LastRow.status = "FAIL"
     /\ LastRow.reason # NoReason /\ LastRow.reason.msg # ""
     /\ LastRow.pubno = pubnos[Len(log_rows)]
     /\ ev = {"caseinfo"}
     /\ call.sent = RETRY
     /\ (Len(pubnos) = 1 /\ pc \in AfterLoop) => Len(log_rows) = 1

C4_Witness ==
  /\ pc = "done" /\ Len(pubnos) = 1 /\ Len(log_rows) = 1
  /\ call.kind = "caseinfo" /\ call.result = "raised"
  /\ last_err = "HTTPError" /\ disk = NoFiles

\* the collection of a file-list body the claim speaks of: the list itself,
\* or a dict's data/files list
BodyItems(body) ==
  IF IsList(body) THEN body.v
  ELSE IF IsDict(body) /\ IsList(Get(body, "data")) THEN Get(body, "data").v
  ELSE IF IsDict(body) /\ IsList(Get(body, "files")) THEN Get(body, "files").v
  ELSE <<>>
NameKeys == {"showName", "fileName", "filename", "name"}
RefKeys == {"fileURL", "fileId", "fileID", "id"}
\* the item has no name or has no reference
LacksPair(item) ==
  \/ ~IsDict(item)
  \/ \A k \in NameKeys : ~Truthy(Get(item, k))
  \/ \A k \in RefKeys : ~Truthy(Get(item, k))
EmptyFileList(body) ==
  /\ IsList(body) \/ (IsDict(body) /\ ~Truthy(Get(body, "resultFileList"))
                      /\ (IsList(Get(body, "data")) \/ Get(body, "data") = None)
                      /\ (IsList(Get(body, "files")) \/ Get(body, "files") = None))
  /\ \A i \in 1..Len(BodyItems(body)) : LacksPair(BodyItems(body)[i])

\* C5: a file list that holds no item with both a name and a reference is no
\* error: the case ends with a FAIL row whose reason is "no files" and which
\* carries the case number, no download is asked, no file is written, and the
\* loop turns to the next publication number.
C5_NoFilesRow ==
  (CaseEnded /\ call.kind = "filelist" /\ call.result = "returned" /\ EmptyFileList(file_list_json)) =>
     /\ LastRow.status = "FAIL"
     /\ LastRow.reason = Reason(NO_FILES, "")
     /\ LastRow.caseNo = case_no /\ Truthy(case_no)
     /\ "download" \notin ev /\ "write" \notin ev
     /\ file_items = <<>>
     /\ pc = "loop" => idx = Len(log_rows) + 1

C5_Witness ==
  /\ pc = "caseinfo" /\ idx = 2 /\ Len(log_rows) = 1
  /\ log_rows[1].reason.msg = NO_FILES /\ log_rows[1].caseNo = Str(<<"9">>)

\* the name holds one of the keywords, letter case apart
HoldsKeyword(name, list) ==
  \E i \in 1..Len(list) : \E off \in 0..Len(name) :
    /\ off + Len(list[i]) <= Len(name)
    /\ \A j \in 1..Len(list[i]) : LowerChar(name[off + j]) = LowerChar(list[i][j])

\* C6: with a keyword allow-list, a file is skipped-and-counted or downloaded
\* only if its name holds a keyword (letter case apart), and the OK row counts
\* the listed files whose names do.
C6_KeywordFilter ==
  keywords.set =>
    /\ \A k \in 1..Len(handled) :
         handled[k] \in {"skipped", "downloaded"} <=> HoldsKeyword(file_items[k][1], keywords.list)
    /\ pc = "download" => HoldsKeyword(file_items[fi][1], keywords.list)
    /\ (CaseEnded /\ LastRow.status = "OK") =>
         LastRow.downloaded_files =
           Cardinality({k \in 1..Len(file_items) : HoldsKeyword(file_items[k][1], keywords.list)})

C6_Witness ==
  /\ keywords.set /\ CaseEnded /\ LastRow.status = "OK"
  /\ Len(file_items) = 2 /\ handled = <<"downloaded", "filtered">>
  /\ LastRow.downloaded_files = 1 /\ "write" \in ev

\* C7: the run ends before the case loop only when the input cannot be loaded
\* or no token is obtained, and then nothing was asked of the case endpoints,
\* no row and no log file was written; the token is asked once, after the
\* input was loaded and before the first case; once the loop runs the run is
\* not aborted.
C7_FatalOnlyBeforeCases ==
  /\ auth_reqs \in {0, 1}
  /\ pc = "start" => auth_reqs = 0
  /\ pc = "auth" => auth_reqs = 0 /\ fatal = ""
  /\ (pc \in CasePcs \cup {"loop"} \cup AfterLoop \/ ev # {} \/ idx >= 1) =>
       auth_reqs = 1 /\ Truthy(token)
  /\ pc = "aborted" =>
       /\ idx = 0 /\ ev = {} /\ call = NoCall
       /\ log_rows = <<>> /\ log_file = ""
       /\ fatal \in {"FileNotFoundError", "ValueError", "HTTPError", "RuntimeError"}
       /\ auth_reqs = 0 <=> fatal \in {"FileNotFoundError", "ValueError"}
  /\ pc \in CasePcs \cup {"loop"} => fatal = ""
  /\ pc = "done" => fatal = "" /\ log_file # ""

C7_Witness ==
  /\ pc = "aborted" /\ auth_reqs = 1 /\ fatal = "RuntimeError" /\ Len(pubnos) = 2

\* C9: a call under the retry policy sends at most RETRY requests, sends none
\* after one succeeded or after it raised, raises only after RETRY failures
\* and then carries the last of them.
C9_Inv ==
  /\ call.sent \in 0..RETRY
  /\ call.result = "running" => call.sent < RETRY /\ attempt = call.sent + 1 /\ pc = call.kind
  /\ call.result = "returned" => call.sent \in 1..RETRY
  /\ call.result = "raised" =>
       /\ call.sent = RETRY /\ last_err # ""
       /\ CaseEnded /\ LastRow.status = "FAIL" /\ LastRow.reason.last_err = last_err

C9_Step ==
  /\ call.result \in {"returned", "raised"} => (call' = call \/ call'.sent = 0)
  /\ call'.sent # 0 => call'.kind = call.kind /\ call'.sent \in {call.sent, call.sent + 1}
  /\ (call'.sent = call.sent + 1 /\ call'.result # "returned") => last_err' # ""

C9_BoundedRetry == []C9_Inv /\ [][C9_Step]_vars

C9_Witness ==
  /\ call.kind = "download" /\ call.result = "returned" /\ call.sent = RETRY
  /\ last_err = "ChunkedEncodingError"

\* C8: parse_file_items gives the same pairs for the same items in every
\* shape (nested resultFileList/fileList, flat list, data, files).
C8_ShapeAgnostic ==
  \A s1 \in Shapes, s2 \in Shapes :
    (pout[s1] # NotParsed /\ pout[s2] # NotParsed) => pout[s1] = pout[s2]

\* C10: no destination is left non-empty and incomplete once the download of
\* it is over, so that a file skipped as present, and counted, is complete.
C10_NoPartialFile ==
  /\ pc # "download" => \A f \in DOMAIN disk : disk[f] > 0 => disk[f] = FileChunks
  /\ (CaseEnded /\ LastRow.status = "OK") =>
       \A k \in 1..Len(handled) :
         handled[k] = "skipped" => disk[SavePath(LastRow.pubno, file_items[k][1])] = FileChunks

=============================================================================
